---- MODULE Spec2Model ----
(***************************************************************************)
(* A model of the two command-line utilities of the repository:             *)
(*   azure-ssml-to-wav/azure_ssml_to_wav.py      (split, synthesize, concat) *)
(*   azure-speech-to-text/azure_speech_to_text.py (transcribe, subtitles)    *)
(*                                                                           *)
(* Text is modelled as a sequence of lexemes (see the token classes below);  *)
(* the regular expressions of the source are modelled by what they match on  *)
(* such sequences.                                                           *)
(***************************************************************************)
EXTENDS Integers, Sequences, FiniteSets, TLC

VARIABLES
    \* split_ssml_by_voice, called on a document and on prefix + document
    ssml_text, prefix, max_voices, split_out, pre_out,
    \* the files on disk: path -> [params, frames]
    fs,
    \* synthesize_to_wav: its position, its locals and what it has done
    s_pc, sdk_installed, retries, attempt, s_result, history, waits, sleep_for,
    s_wav, remote_calls,
    \* concat_wavs: its arguments, its outcome, the files before the call
    wav_paths, out_wav, c_out, fs_before,
    \* main of azure_ssml_to_wav.py: its position, environment and locals
    m_pc, exit_code, has_key, input_exists, no_split, to_mp3, has_pydub,
    pre_parts, part_paths, idx, wav_parts, submitted, mp3_written,
    \* transcribe_one: its position, the flag and list its callbacks share,
    \* the recognizer's stream and events, the environment, the files written
    t_pc, done, segments, stream, fired, stt_key, stt_region, stt_endpoint,
    want, written,
    \* sec_to_srt and sec_to_vtt: the argument and the two results
    t_in, srt_out, vtt_out

splitVars == <<ssml_text, prefix, max_voices, split_out, pre_out>>

synthVars == <<s_pc, sdk_installed, retries, attempt, s_result, history, waits,
               sleep_for, s_wav, remote_calls>>

concatVars == <<wav_paths, out_wav, c_out, fs_before>>

mainVars == <<m_pc, exit_code, has_key, input_exists, no_split, to_mp3, has_pydub,
              pre_parts, part_paths, idx, wav_parts, submitted, mp3_written>>

sttVars == <<t_pc, done, segments, stream, fired, stt_key, stt_region,
             stt_endpoint, want, written>>

fmtVars == <<t_in, srt_out, vtt_out>>

vars == <<splitVars, fs, synthVars, concatVars, mainVars, sttVars, fmtVars>>

----------------------------------------------------------------------------
(* Bounds of the model *)

MaxItems == 4
MaxVoices == 3
MaxPrologItems == 2
MaxRetries == 2
MaxParts == 3
MaxPreParts == 2
MaxSegments == 2

----------------------------------------------------------------------------
(* Generic sequence helpers *)

Min(a, b) == IF a <= b THEN a ELSE b

RECURSIVE Flatten(_)
Flatten(ss) == IF ss = <<>> THEN <<>> ELSE Head(ss) \o Flatten(Tail(ss))

RECURSIVE SeqsUpTo(_, _)
SeqsUpTo(S, n) ==
    IF n = 0 THEN {<<>>}
    ELSE LET shorter == SeqsUpTo(S, n - 1)
         IN  shorter \cup {Append(s, x) : s \in shorter, x \in S}

\* the least index i in lo..Len(s) with s[i] \in T, or 0 when there is none
FirstIn(s, T, lo) ==
    LET hits == {i \in lo..Len(s) : s[i] \in T}
    IN  IF hits = {} THEN 0 ELSE CHOOSE i \in hits : \A j \in hits : i <= j

----------------------------------------------------------------------------
(* Lexemes of an SSML text *)

SpeakOpenTags == {"<speak>", "<speak version>"}   \* matches of <\s*speak\b[^>]*>
SpeakCloseTags == {"</speak>"}                    \* matches of </\s*speak\s*>
VoiceOpenTags == {"<voice>"}                      \* matches of <\s*voice\b[^>]*>
VoiceCloseTags == {"</voice>"}                    \* matches of <\s*/\s*voice\s*>
Space == {" ", "\n"}                              \* matches of \s
\* lexemes that hold a '>' character
HasGt == SpeakOpenTags \cup SpeakCloseTags \cup VoiceOpenTags \cup VoiceCloseTags
            \cup {"?>", "-->"}

\* the number of leading whitespace lexemes of s
LeadingSpace(s) ==
    LET non == {i \in 1..Len(s) : s[i] \notin Space}
    IN  IF non = {} THEN Len(s) ELSE (CHOOSE i \in non : \A j \in non : i <= j) - 1

DropFrom(s, i) == SubSeq(s, i, Len(s))

StripBOM(s) == IF s /= <<>> /\ s[1] = "BOM" THEN Tail(s) ELSE s

\* re.sub(r'^\s*<\?xml[^>]*\?>\s*', '', s, flags=re.S)
StripXmlDecl(s) ==
    LET i == LeadingSpace(s)
        g == FirstIn(s, HasGt, i + 2)
    IN  IF i < Len(s) /\ s[i + 1] = "<?xml" /\ g /= 0 /\ s[g] = "?>"
        THEN LET rest == DropFrom(s, g + 1) IN DropFrom(rest, LeadingSpace(rest) + 1)
        ELSE s

\* re.sub(r'^\s*<!--.*?-->\s*', '', s, flags=re.S)
StripComment(s) ==
    LET i == LeadingSpace(s)
        c == FirstIn(s, {"-->"}, i + 2)
    IN  IF i < Len(s) /\ s[i + 1] = "<!--" /\ c /= 0
        THEN LET rest == DropFrom(s, c + 1) IN DropFrom(rest, LeadingSpace(rest) + 1)
        ELSE s

normalize_prolog_KeepComment(s) == StripXmlDecl(StripBOM(s))

normalize_prolog(s) == StripComment(StripXmlDecl(StripBOM(s)))

extract_speak_body(s) ==
    LET txt == normalize_prolog(s)
        m_open == FirstIn(txt, SpeakOpenTags, 1)
        m_close == FirstIn(txt, SpeakCloseTags, 1)
    IN  IF m_open = 0 \/ m_close = 0
        THEN [ok |-> FALSE, open_tag |-> "", body |-> <<>>, close_tag |-> ""]
        ELSE [ok |-> TRUE, open_tag |-> txt[m_open],
              body |-> SubSeq(txt, m_open + 1, m_close - 1),
              close_tag |-> txt[m_close]]

\* re.findall(r'(?s)(<\s*voice\b[^>]*>.*?<\s*/\s*voice\s*>)', body, flags=re.I),
\* scanning from lexeme lo
RECURSIVE FindVoiceBlocks(_, _)
FindVoiceBlocks(body, lo) ==
    LET i == FirstIn(body, VoiceOpenTags, lo)
        j == IF i = 0 THEN 0 ELSE FirstIn(body, VoiceCloseTags, i + 1)
    IN  IF i = 0 \/ j = 0 THEN <<>>
        ELSE <<SubSeq(body, i, j)>> \o FindVoiceBlocks(body, j + 1)

\* "\n".join(current)
RECURSIVE JoinLines(_)
JoinLines(current) ==
    IF current = <<>> THEN <<>>
    ELSE IF Len(current) = 1 THEN current[1]
    ELSE current[1] \o <<"\n">> \o JoinLines(Tail(current))

MakePart(open_tag, current, close_tag) ==
    <<open_tag, "\n">> \o JoinLines(current) \o <<"\n", close_tag>>

ChunkFull_Off(current, mv) == Len(current) > mv

ChunkFull(current, mv) == Len(current) >= mv

\* the for loop of split_ssml_by_voice over voice_blocks[i..], with its two
\* accumulators, and the trailing flush
RECURSIVE GroupLoop(_, _, _, _, _, _, _)
GroupLoop(voice_blocks, i, current, parts, mv, open_tag, close_tag) ==
    IF i > Len(voice_blocks)
    THEN IF current /= <<>>
         THEN Append(parts, MakePart(open_tag, current, close_tag))
         ELSE parts
    ELSE LET cur == Append(current, voice_blocks[i])
         IN  IF ChunkFull(cur, mv)
             THEN GroupLoop(voice_blocks, i + 1, <<>>,
                            Append(parts, MakePart(open_tag, cur, close_tag)),
                            mv, open_tag, close_tag)
             ELSE GroupLoop(voice_blocks, i + 1, cur, parts, mv, open_tag, close_tag)

VoiceBlocksOf(body) ==
    LET found == FindVoiceBlocks(body, 1)
    IN  IF found = <<>> THEN <<body>> ELSE found

split_ssml_by_voice(s, mv) ==
    LET e == extract_speak_body(s)
    IN  IF ~e.ok THEN [status |-> "ValueError", parts |-> <<>>]
        ELSE [status |-> "ok",
              parts |-> GroupLoop(VoiceBlocksOf(e.body), 1, <<>>, <<>>, mv,
                                  e.open_tag, e.close_tag)]

NotCalled == [status |-> "not called", parts |-> <<>>]

----------------------------------------------------------------------------
(* Files *)

NoFiles == <<>>

Exists(files, p) == p \in DOMAIN files

WriteFile(files, p, f) ==
    [q \in DOMAIN files \cup {p} |-> IF q = p THEN f ELSE files[q]]

\* speechsdk.SpeechSynthesisOutputFormat.Riff24Khz16BitMonoPcm as
\* (nchannels, sampwidth, framerate)
Riff24Khz16BitMonoPcm == <<1, 2, 24000>>

WavPath(k) == <<"wavs", k>>

----------------------------------------------------------------------------
(* synthesize_to_wav *)

DefaultRetries == 2

\* time.sleep(1.5 * attempt), in tenths of a second
BackoffTenths == 15

UpperLetters == <<"A","B","C","D","E","F","G","H","I","J","K","L","M",
                  "N","O","P","Q","R","S","T","U","V","W","X","Y","Z">>
LowerLetters == <<"a","b","c","d","e","f","g","h","i","j","k","l","m",
                  "n","o","p","q","r","s","t","u","v","w","x","y","z">>

LowerChar(c) ==
    IF \E k \in 1..26 : UpperLetters[k] = c
    THEN LowerLetters[CHOOSE k \in 1..26 : UpperLetters[k] = c]
    ELSE c

\* str.lower()
Lower(str) == [i \in 1..Len(str) |-> LowerChar(str[i])]

\* needle in hay
Contains(needle, hay) ==
    \E i \in 0..(Len(hay) - Len(needle)) : SubSeq(hay, i + 1, i + Len(needle)) = needle

ConnectionFailure == <<"C","o","n","n","e","c","t","i","o","n","F","a","i","l","u","r","e">>
ServiceTimeout == <<"S","e","r","v","i","c","e","T","i","m","e","o","u","t">>
timeout == <<"t","i","m","e","o","u","t">>

\* str(code) of a member of the SDK's CancellationErrorCode enumeration
StrCode(member) == <<"CancellationErrorCode.">> \o member

ErrorCodes == {ConnectionFailure, ServiceTimeout}

\* details.error_details or ""
ErrorDetails == {<<>>,
                 <<"T","i","m","e","o","u","t">>,
                 <<"t","i","m","e","d"," ","o","u","t">>}

\* what one speak_ssml_async(...).get() can do
Outcomes ==
    {[reason |-> r, code |-> <<>>, err |-> <<>>] :
        r \in {"exception", "SynthesizingAudioCompleted", "SynthesizingAudioStarted"}}
    \cup {[reason |-> "Canceled", code |-> c, err |-> e] :
        c \in ErrorCodes, e \in ErrorDetails}

IsTransientCancel(code, err) ==
    Contains(ConnectionFailure, StrCode(code)) \/ Contains(timeout, Lower(err))

CanRetry_OffByOne(a, r) == a < r

CanRetry(a, r) == a <= r

\* the except branch sleeps whatever the attempt number
SleepAfterException(a, r) == TRUE

SynthIdle ==
    /\ s_pc = "idle"
    /\ sdk_installed = TRUE
    /\ retries = DefaultRetries
    /\ attempt = 0
    /\ s_result = "none"
    /\ history = <<>>
    /\ waits = <<>>
    /\ sleep_for = 0
    /\ s_wav = WavPath(0)
    /\ remote_calls = 0

\* lines 89-97: the SDK check, the configuration, attempt = 0
SynthEnter ==
    /\ s_pc = "enter"
    /\ IF sdk_installed
       THEN s_pc' = "loop"
       ELSE s_pc' = "raised"
    /\ attempt' = 0
    /\ UNCHANGED <<sdk_installed, retries, s_result, history, waits, sleep_for,
                   s_wav, remote_calls, fs>>
    /\ UNCHANGED <<splitVars, concatVars, mainVars, sttVars, fmtVars>>

\* one pass of the while body, lines 98-122, up to its sleep or return
SynthAttempt ==
    /\ s_pc = "loop"
    /\ attempt <= retries
    /\ \E o \in Outcomes :
        LET a == attempt + 1 IN
        /\ attempt' = a
        /\ history' = Append(history, o)
        /\ remote_calls' = remote_calls + 1
        /\ CASE o.reason = "exception" ->
                   /\ IF SleepAfterException(a, retries)
                      THEN s_pc' = "sleep" /\ sleep_for' = BackoffTenths * a
                      ELSE s_pc' = "loop" /\ sleep_for' = 0
                   /\ UNCHANGED <<s_result, fs>>
             [] o.reason = "SynthesizingAudioCompleted" ->
                   /\ s_pc' = "returned"
                   /\ s_result' = "True"
                   /\ fs' = WriteFile(fs, s_wav,
                                [params |-> Riff24Khz16BitMonoPcm, frames |-> <<s_wav[2]>>])
                   /\ UNCHANGED sleep_for
             [] o.reason = "Canceled" ->
                   IF IsTransientCancel(o.code, o.err) /\ CanRetry(a, retries)
                   THEN /\ s_pc' = "sleep"
                        /\ sleep_for' = BackoffTenths * a
                        /\ UNCHANGED <<s_result, fs>>
                   ELSE /\ s_pc' = "returned"
                        /\ s_result' = "False"
                        /\ UNCHANGED <<sleep_for, fs>>
             [] OTHER ->
                   /\ s_pc' = "loop"
                   /\ UNCHANGED <<s_result, sleep_for, fs>>
    /\ UNCHANGED <<sdk_installed, retries, waits, s_wav>>
    /\ UNCHANGED <<splitVars, concatVars, mainVars, sttVars, fmtVars>>

\* time.sleep returns and the loop continues
SynthSleepDone ==
    /\ s_pc = "sleep"
    /\ waits' = Append(waits, [after |-> attempt, tenths |-> sleep_for])
    /\ sleep_for' = 0
    /\ s_pc' = "loop"
    /\ UNCHANGED <<sdk_installed, retries, attempt, s_result, history, s_wav,
                   remote_calls, fs>>
    /\ UNCHANGED <<splitVars, concatVars, mainVars, sttVars, fmtVars>>

\* the while condition fails: line 123
SynthLoopExit ==
    /\ s_pc = "loop"
    /\ ~(attempt <= retries)
    /\ s_pc' = "returned"
    /\ s_result' = "False"
    /\ UNCHANGED <<sdk_installed, retries, attempt, history, waits, sleep_for,
                   s_wav, remote_calls, fs>>
    /\ UNCHANGED <<splitVars, concatVars, mainVars, sttVars, fmtVars>>

----------------------------------------------------------------------------
(* concat_wavs *)

NoError == [kind |-> "none", file |-> <<>>, actual |-> <<>>, expected |-> <<>>]

AppendFrames_Front(data_frames, frames) == <<frames>> \o data_frames

\* data_frames.append(w.readframes(w.getnframes()))
AppendFrames(data_frames, frames) == Append(data_frames, frames)

\* the for loop of lines 130-137 over paths[i..]; params = <<>> stands for None
RECURSIVE ReadLoop(_, _, _, _, _)
ReadLoop(files, paths, i, params, data_frames) ==
    IF i > Len(paths)
    THEN [status |-> "ok", error |-> NoError, params |-> params,
          data_frames |-> data_frames]
    ELSE LET p == paths[i] IN
         IF ~Exists(files, p)
         THEN [status |-> "FileNotFoundError",
               error |-> [kind |-> "missing", file |-> p, actual |-> <<>>,
                          expected |-> <<>>],
               params |-> params, data_frames |-> data_frames]
         ELSE LET cur == files[p].params IN
              IF params /= <<>> /\ cur /= params
              THEN [status |-> "ValueError",
                    error |-> [kind |-> "mismatch", file |-> p, actual |-> cur,
                               expected |-> params],
                    params |-> params, data_frames |-> data_frames]
              ELSE ReadLoop(files, paths, i + 1, cur,
                            AppendFrames(data_frames, files[p].frames))

\* a variant that opens the output for writing before it reads the inputs
concat_wavs_OpenFirst(files, paths, out) ==
    LET opened == WriteFile(files, out, [params |-> <<>>, frames |-> <<>>])
        r == ReadLoop(files, paths, 1, <<>>, <<>>)
    IN  IF paths = <<>>
        THEN [status |-> "ValueError",
              error |-> [kind |-> "empty", file |-> <<>>, actual |-> <<>>,
                         expected |-> <<>>],
              fs |-> opened]
        ELSE IF r.status /= "ok"
        THEN [status |-> r.status, error |-> r.error, fs |-> opened]
        ELSE [status |-> "ok", error |-> NoError,
              fs |-> WriteFile(files, out,
                        [params |-> r.params, frames |-> Flatten(r.data_frames)])]

concat_wavs(files, paths, out) ==
    IF paths = <<>>
    THEN [status |-> "ValueError",
          error |-> [kind |-> "empty", file |-> <<>>, actual |-> <<>>,
                     expected |-> <<>>],
          fs |-> files]
    ELSE LET r == ReadLoop(files, paths, 1, <<>>, <<>>) IN
         IF r.status /= "ok"
         THEN [status |-> r.status, error |-> r.error, fs |-> files]
         ELSE [status |-> "ok", error |-> NoError,
               fs |-> WriteFile(files, out,
                         [params |-> r.params, frames |-> Flatten(r.data_frames)])]

ConcatNotCalled == [status |-> "not called", error |-> NoError]

ConcatIdle ==
    /\ wav_paths = <<>>
    /\ out_wav = <<"out", 0>>
    /\ c_out = ConcatNotCalled
    /\ fs_before = NoFiles

ConcatCall ==
    /\ c_out.status = "not called"
    /\ LET r == concat_wavs(fs, wav_paths, out_wav) IN
        /\ c_out' = [status |-> r.status, error |-> r.error]
        /\ fs' = r.fs
    /\ UNCHANGED <<wav_paths, out_wav, fs_before>>
    /\ UNCHANGED <<splitVars, synthVars, mainVars, sttVars, fmtVars>>

\* inputs: three WAV files on disk, each in one of two formats, an old output
\* file, and an argument list that may name a file twice or a missing file
Stereo24Khz == <<2, 2, 24000>>

InputFrames == <<<<11, 12>>, <<21>>, <<>>>>

FileSystems ==
    {[p \in {<<"in", 1>>, <<"in", 2>>, <<"in", 3>>, <<"out", 1>>} |->
        IF p[1] = "out"
        THEN [params |-> Stereo24Khz, frames |-> <<99>>]
        ELSE [params |-> fmt[p[2]], frames |-> InputFrames[p[2]]]] :
     fmt \in [1..3 -> {Riff24Khz16BitMonoPcm, Stereo24Khz}]}

InputPaths == {<<"in", 1>>, <<"in", 2>>, <<"in", 3>>, <<"in", 4>>}

OutPaths == {<<"out", 0>>, <<"out", 1>>, <<"in", 1>>}

----------------------------------------------------------------------------
(* The transcription script at rest *)

FmtIdle ==
    /\ t_in = [sec |-> 0, frac |-> 0]
    /\ srt_out = <<>>
    /\ vtt_out = <<>>

SttIdle ==
    /\ t_pc = "none"
    /\ done = FALSE
    /\ segments = <<>>
    /\ stream = "none"
    /\ fired = {}
    /\ stt_key = FALSE
    /\ stt_region = FALSE
    /\ stt_endpoint = FALSE
    /\ want = {}
    /\ written = <<>>

----------------------------------------------------------------------------
(* main of azure_ssml_to_wav.py *)

FinalWav == <<"out", 0>>

\* a chunk file left in <out>/parts by an earlier run
PrePart == <<"<speak>", "\n", "<voice>", "a", "</voice>", "\n", "</speak>">>

MainIdle ==
    /\ m_pc = "none"
    /\ exit_code = -1
    /\ has_key = FALSE
    /\ input_exists = FALSE
    /\ no_split = FALSE
    /\ to_mp3 = FALSE
    /\ has_pydub = FALSE
    /\ pre_parts = 0
    /\ part_paths = <<>>
    /\ idx = 1
    /\ wav_parts = <<>>
    /\ submitted = <<>>
    /\ mp3_written = FALSE

mainLocals == <<part_paths, idx, wav_parts, submitted, mp3_written>>

mainEnv == <<has_key, input_exists, no_split, to_mp3, has_pydub, pre_parts>>

\* sys.exit(code)
Exit(code) == m_pc' = "exit" /\ exit_code' = code

\* lines 170-174
MainCheckKey ==
    /\ m_pc = "start"
    /\ IF ~has_key THEN Exit(2) ELSE m_pc' = "input" /\ UNCHANGED exit_code
    /\ UNCHANGED <<mainEnv, mainLocals, splitVars, fs, synthVars, concatVars, sttVars, fmtVars>>

\* lines 176-185
MainCheckInput ==
    /\ m_pc = "input"
    /\ IF ~input_exists THEN Exit(3) ELSE m_pc' = "parts" /\ UNCHANGED exit_code
    /\ UNCHANGED <<mainEnv, mainLocals, splitVars, fs, synthVars, concatVars, sttVars, fmtVars>>

SplitFailed_Ignored(r) == FALSE

\* the try/except around split_ssml_by_voice, lines 192-197
SplitFailed(r) == r.status /= "ok"

\* lines 188-202
MainSplit ==
    /\ m_pc = "parts"
    /\ ~no_split
    /\ LET r == split_ssml_by_voice(ssml_text, max_voices) IN
        IF SplitFailed(r)
        THEN Exit(4) /\ UNCHANGED part_paths
        ELSE m_pc' = "submit" /\ part_paths' = r.parts /\ UNCHANGED exit_code
    /\ UNCHANGED <<idx, wav_parts, submitted, mp3_written>>
    /\ UNCHANGED <<mainEnv, splitVars, fs, synthVars, concatVars, sttVars, fmtVars>>

\* lines 203-207
MainGlob ==
    /\ m_pc = "parts"
    /\ no_split
    /\ part_paths' = [k \in 1..pre_parts |-> PrePart]
    /\ IF part_paths' = <<>>
       THEN Exit(5)
       ELSE m_pc' = "submit" /\ UNCHANGED exit_code
    /\ UNCHANGED <<idx, wav_parts, submitted, mp3_written>>
    /\ UNCHANGED <<mainEnv, splitVars, fs, synthVars, concatVars, sttVars, fmtVars>>

\* lines 210-212: the next chunk is handed to synthesize_to_wav
MainSubmit ==
    /\ m_pc = "submit"
    /\ idx <= Len(part_paths)
    /\ m_pc' = "synth"
    /\ submitted' = Append(submitted, idx)
    /\ s_pc' = "enter"
    /\ retries' = DefaultRetries
    /\ attempt' = 0
    /\ s_result' = "none"
    /\ history' = <<>>
    /\ waits' = <<>>
    /\ sleep_for' = 0
    /\ s_wav' = WavPath(idx)
    /\ UNCHANGED <<sdk_installed, remote_calls>>
    /\ UNCHANGED <<exit_code, part_paths, idx, wav_parts, mp3_written>>
    /\ UNCHANGED <<mainEnv, splitVars, fs, concatVars, sttVars, fmtVars>>

ChunkFailed_Never(ok) == FALSE

\* if not ok, line 213
ChunkFailed(ok) == ok /= "True"

\* lines 213-216
MainChunkDone ==
    /\ m_pc = "synth"
    /\ s_pc = "returned"
    /\ IF ChunkFailed(s_result)
       THEN Exit(6) /\ UNCHANGED <<idx, wav_parts, s_pc>>
       ELSE /\ wav_parts' = Append(wav_parts, s_wav)
            /\ idx' = idx + 1
            /\ m_pc' = "submit"
            /\ s_pc' = "idle"
            /\ UNCHANGED exit_code
    /\ UNCHANGED <<sdk_installed, retries, attempt, s_result, history, waits,
                   sleep_for, s_wav, remote_calls>>
    /\ UNCHANGED <<part_paths, submitted, mp3_written>>
    /\ UNCHANGED <<mainEnv, splitVars, fs, concatVars, sttVars, fmtVars>>

\* synthesize_to_wav raised (no SDK): the exception leaves main, status 1
MainSynthRaised ==
    /\ m_pc = "synth"
    /\ s_pc = "raised"
    /\ Exit(1)
    /\ UNCHANGED <<mainEnv, mainLocals, splitVars, fs, synthVars, concatVars, sttVars, fmtVars>>

\* lines 218-219, and 225 when no MP3 is asked for
MainConcat ==
    /\ m_pc = "submit"
    /\ idx > Len(part_paths)
    /\ LET r == concat_wavs(fs, wav_parts, FinalWav) IN
        /\ fs' = r.fs
        /\ IF r.status /= "ok" THEN Exit(1)
           ELSE IF to_mp3 THEN m_pc' = "mp3" /\ UNCHANGED exit_code
           ELSE Exit(0)
    /\ UNCHANGED <<mainEnv, mainLocals, splitVars, synthVars, concatVars, sttVars, fmtVars>>

\* lines 221-225, wav_to_mp3
MainMp3 ==
    /\ m_pc = "mp3"
    /\ mp3_written' = has_pydub
    /\ Exit(0)
    /\ UNCHANGED <<part_paths, idx, wav_parts, submitted>>
    /\ UNCHANGED <<mainEnv, splitVars, fs, synthVars, concatVars, sttVars, fmtVars>>

MainDocuments ==
    {<<"<speak>", "a">>,
     <<"<speak>", "<voice>", "a", "</voice>", "</speak>">>,
     <<"<speak version>", "<voice>", "a", "</voice>", "<voice>", "b", "</voice>",
       "<voice>", "a", "</voice>", "</speak>">>}

InitMain ==
    /\ ssml_text \in MainDocuments
    /\ max_voices \in 1..MaxVoices
    /\ prefix = <<>>
    /\ split_out = NotCalled
    /\ pre_out = NotCalled
    /\ fs = NoFiles
    /\ s_pc = "idle"
    /\ sdk_installed \in BOOLEAN
    /\ retries = DefaultRetries
    /\ attempt = 0
    /\ s_result = "none"
    /\ history = <<>>
    /\ waits = <<>>
    /\ sleep_for = 0
    /\ s_wav = WavPath(0)
    /\ remote_calls = 0
    /\ ConcatIdle
    /\ m_pc = "start"
    /\ exit_code = -1
    /\ has_key \in BOOLEAN
    /\ input_exists \in BOOLEAN
    /\ no_split \in BOOLEAN
    /\ to_mp3 \in BOOLEAN
    /\ has_pydub \in BOOLEAN
    /\ pre_parts \in 0..MaxPreParts
    /\ part_paths = <<>>
    /\ idx = 1
    /\ wav_parts = <<>>
    /\ submitted = <<>>
    /\ mp3_written = FALSE
    /\ SttIdle
    /\ FmtIdle

NextMain ==
    \/ MainCheckKey
    \/ MainCheckInput
    \/ MainSplit
    \/ MainGlob
    \/ MainSubmit
    \/ SynthEnter
    \/ SynthAttempt
    \/ SynthSleepDone
    \/ SynthLoopExit
    \/ MainChunkDone
    \/ MainSynthRaised
    \/ MainConcat
    \/ MainMp3

SpecMain == InitMain /\ [][NextMain]_vars

----------------------------------------------------------------------------
(* A call of synthesize_to_wav, and a call of concat_wavs *)

\* one call of synthesize_to_wav with a retry budget of 0..MaxRetries
InitSynth ==
    /\ ssml_text = <<>>
    /\ max_voices = 0
    /\ prefix = <<>>
    /\ split_out = NotCalled
    /\ pre_out = NotCalled
    /\ fs = NoFiles
    /\ s_pc = "enter"
    /\ sdk_installed \in BOOLEAN
    /\ retries \in 0..MaxRetries
    /\ attempt = 0
    /\ s_result = "none"
    /\ history = <<>>
    /\ waits = <<>>
    /\ sleep_for = 0
    /\ s_wav = WavPath(1)
    /\ remote_calls = 0
    /\ ConcatIdle
    /\ MainIdle
    /\ SttIdle
    /\ FmtIdle

NextSynth ==
    \/ SynthEnter
    \/ SynthAttempt
    \/ SynthSleepDone
    \/ SynthLoopExit

SpecSynth == InitSynth /\ [][NextSynth]_vars

InitConcat ==
    /\ ssml_text = <<>>
    /\ max_voices = 0
    /\ prefix = <<>>
    /\ split_out = NotCalled
    /\ pre_out = NotCalled
    /\ SynthIdle
    /\ MainIdle
    /\ SttIdle
    /\ FmtIdle
    /\ fs \in FileSystems
    /\ fs_before = fs
    /\ wav_paths \in SeqsUpTo(InputPaths, MaxParts)
    /\ out_wav \in OutPaths
    /\ c_out = ConcatNotCalled

NextConcat == ConcatCall

SpecConcat == InitConcat /\ [][NextConcat]_vars

----------------------------------------------------------------------------
(* sec_to_srt, sec_to_vtt *)

\* res.offset and res.duration count 100-nanosecond ticks
TicksPerSecond == 10000000

\* A time t = ticks / 10_000_000 is kept as [sec, frac]: whole seconds and the
\* remaining ticks.  The float arithmetic of the source is exact on such t
\* except where a rounding lands on a tie, where the binary value of t decides:
\* there the result is either neighbour (up = TRUE or FALSE).
Time(sec, frac) == [sec |-> sec, frac |-> frac]

AddTime(a, b) ==
    Time(a.sec + b.sec + (a.frac + b.frac) \div TicksPerSecond,
         (a.frac + b.frac) % TicksPerSecond)

\* round(x) of x = n / unit
RoundDiv(n, unit, up) ==
    LET q == n \div unit
        r == n % unit
    IN  IF 2 * r > unit THEN q + 1
        ELSE IF 2 * r < unit THEN q
        ELSE IF up THEN q + 1 ELSE q

DigitChars == <<"0", "1", "2", "3", "4", "5", "6", "7", "8", "9">>

RECURSIVE Digits(_)
Digits(n) ==
    IF n < 10 THEN <<DigitChars[n + 1]>>
    ELSE Digits(n \div 10) \o <<DigitChars[(n % 10) + 1]>>

\* format(n, "0<w>d"): at least w digits, padded with zeros
Pad(n, w) ==
    LET d == Digits(n)
    IN  IF Len(d) >= w THEN d ELSE [i \in 1..(w - Len(d)) |-> "0"] \o d

sec_to_srt(t, up) ==
    LET h == t.sec \div 3600
        m == (t.sec % 3600) \div 60
        sec == t.sec % 60
        ms == RoundDiv(t.frac, TicksPerSecond \div 1000, up)
    IN  Pad(h, 2) \o <<":">> \o Pad(m, 2) \o <<":">> \o Pad(sec, 2) \o <<",">> \o Pad(ms, 3)

sec_to_vtt(t, up) ==
    LET h == t.sec \div 3600
        m == (t.sec % 3600) \div 60
        \* f"{sec:06.3f}" of sec = t % 60: thousandths, rounded
        th == (t.sec % 60) * 1000 + RoundDiv(t.frac, TicksPerSecond \div 1000, up)
    IN  Pad(h, 2) \o <<":">> \o Pad(m, 2) \o <<":">>
            \o Pad(th \div 1000, 2) \o <<".">> \o Pad(th % 1000, 3)

\* f"{x:.2f}"
Fixed2(t, up) ==
    LET hu == t.sec * 100 + RoundDiv(t.frac, TicksPerSecond \div 100, up)
    IN  Digits(hu \div 100) \o <<".">> \o Pad(hu % 100, 2)

SampleSeconds == {0, 1, 59, 3599, 3600, 359999}

SampleFracs == {0, 5000000, 2500000, 15000, 5000, 9994999, 9996000, 9999999,
                1234567}

FormatCall ==
    /\ srt_out = <<>>
    /\ \E up \in BOOLEAN :
        /\ srt_out' = sec_to_srt(t_in, up)
        /\ vtt_out' = sec_to_vtt(t_in, up)
    /\ UNCHANGED t_in
    /\ UNCHANGED <<splitVars, fs, synthVars, concatVars, mainVars, sttVars>>

----------------------------------------------------------------------------
(* transcribe_one *)

Formats == {"txt", "tsv", "srt", "vtt"}

sttEnv == <<stt_key, stt_region, stt_endpoint, want>>

notStt == <<splitVars, fs, synthVars, concatVars, mainVars, fmtVars>>

\* lines 30-68: the credentials, the recognizer, the three handlers connected
TEnter ==
    /\ t_pc = "enter"
    /\ IF ~stt_key \/ ~(stt_region \/ stt_endpoint)
       THEN t_pc' = "SystemExit"
       ELSE t_pc' = "connected"
    /\ UNCHANGED <<done, segments, stream, fired, written, sttEnv, notStt>>

\* line 71
TStart ==
    /\ t_pc = "connected"
    /\ stream' = "running"
    /\ t_pc' = "poll"
    /\ UNCHANGED <<done, segments, fired, written, sttEnv, notStt>>

PollingOver_Always(d) == TRUE

\* while not done, line 72
PollingOver(d) == d

\* line 73: the flag is not set, the main flow sleeps 0.2 s and tests again
TPollWait ==
    /\ t_pc = "poll"
    /\ ~PollingOver(done)
    /\ UNCHANGED <<t_pc, done, segments, stream, fired, written, sttEnv, notStt>>

\* line 72: the flag is set, the loop is left
TPollExit ==
    /\ t_pc = "poll"
    /\ PollingOver(done)
    /\ t_pc' = "stop"
    /\ UNCHANGED <<done, segments, stream, fired, written, sttEnv, notStt>>

\* line 74
TStop ==
    /\ t_pc = "stop"
    /\ stream' = "stopped"
    /\ t_pc' = "output"
    /\ UNCHANGED <<done, segments, fired, written, sttEnv, notStt>>

\* lines 76-107
TOutput ==
    /\ t_pc = "output"
    /\ t_pc' = "returned"
    /\ IF segments = <<>>
       THEN UNCHANGED written
       ELSE \E up \in BOOLEAN :
            written' = [f \in want |->
                CASE f = "txt" -> [i \in 1..Len(segments) |-> <<segments[i].text>>]
                  [] f = "tsv" -> <<<<"start_s", "end_s", "text">>>> \o
                        [i \in 1..Len(segments) |->
                            <<Fixed2(segments[i].start, up), Fixed2(segments[i].end, up),
                              segments[i].text>>]
                  [] f = "srt" ->
                        [i \in 1..Len(segments) |->
                            <<i, sec_to_srt(segments[i].start, up),
                              sec_to_srt(segments[i].end, up), segments[i].text>>]
                  [] f = "vtt" -> <<<<"WEBVTT">>>> \o
                        [i \in 1..Len(segments) |->
                            <<sec_to_vtt(segments[i].start, up),
                              sec_to_vtt(segments[i].end, up), segments[i].text>>]]
    /\ UNCHANGED <<done, segments, stream, fired, sttEnv, notStt>>

\* what the recognizer can report in a recognized event
Offsets == {Time(0, 0), Time(1, 5000000)}

Durations == {Time(1, 5000000), Time(1, 7500000)}

\* on_recognized, lines 55-60, called by the recognizer while the stream runs
on_recognized ==
    /\ stream = "running"
    /\ Len(segments) < MaxSegments
    /\ \E reason \in {"RecognizedSpeech", "NoMatch"}, text \in {"", "A"},
          offset \in Offsets, duration \in Durations :
        IF reason = "RecognizedSpeech" /\ text /= ""
        THEN segments' = Append(segments,
                [start |-> offset, end |-> AddTime(offset, duration), text |-> text])
        ELSE UNCHANGED segments
    /\ UNCHANGED <<t_pc, done, stream, fired, written, sttEnv, notStt>>

\* stop_cb, lines 62-64, connected to session_stopped and to canceled
stop_cb(evt) ==
    /\ stream = "running"
    /\ evt \notin fired
    /\ fired' = fired \cup {evt}
    /\ done' = TRUE
    /\ UNCHANGED <<t_pc, segments, stream, written, sttEnv, notStt>>

session_stopped == stop_cb("session_stopped")

canceled == stop_cb("canceled")

InitSTT ==
    /\ ssml_text = <<>>
    /\ max_voices = 0
    /\ prefix = <<>>
    /\ split_out = NotCalled
    /\ pre_out = NotCalled
    /\ fs = NoFiles
    /\ SynthIdle
    /\ ConcatIdle
    /\ MainIdle
    /\ FmtIdle
    /\ t_pc = "enter"
    /\ done = FALSE
    /\ segments = <<>>
    /\ stream = "none"
    /\ fired = {}
    /\ stt_key \in BOOLEAN
    /\ stt_region \in BOOLEAN
    /\ stt_endpoint \in BOOLEAN
    /\ want \in (SUBSET Formats) \ {{}}
    /\ written = <<>>

NextSTT ==
    \/ TEnter
    \/ TStart
    \/ TPollWait
    \/ TPollExit
    \/ TStop
    \/ TOutput
    \/ on_recognized
    \/ session_stopped
    \/ canceled

SpecSTT == InitSTT /\ [][NextSTT]_vars

\* the main flow keeps running: every sleep returns and every call it makes
\* returns; nothing is assumed of the recognizer's events
FairSpecSTT ==
    SpecSTT /\ WF_vars(TEnter) /\ WF_vars(TStart) /\ WF_vars(TPollExit)
            /\ WF_vars(TStop) /\ WF_vars(TOutput)

InitFmt ==
    /\ ssml_text = <<>>
    /\ max_voices = 0
    /\ prefix = <<>>
    /\ split_out = NotCalled
    /\ pre_out = NotCalled
    /\ fs = NoFiles
    /\ SynthIdle
    /\ ConcatIdle
    /\ MainIdle
    /\ SttIdle
    /\ t_in \in {Time(sec, frac) : sec \in SampleSeconds, frac \in SampleFracs}
    /\ srt_out = <<>>
    /\ vtt_out = <<>>

NextFmt == FormatCall

SpecFmt == InitFmt /\ [][NextFmt]_vars

----------------------------------------------------------------------------
(* Inputs of the splitter *)

BodyItems == {<<"<voice>", "a", "</voice>">>, <<"<voice>", "b", "</voice>">>,
              <<" ">>, <<"<voice>", "a">>}

Tails == {<<"</speak>">>, <<>>}

\* bare documents: they start with the <speak> opening tag
Documents(n) ==
    {<<so>> \o Flatten(items) \o tl :
        so \in SpeakOpenTags, items \in SeqsUpTo(BodyItems, n), tl \in Tails}

Sp(b) == IF b THEN <<" ">> ELSE <<>>

XmlDecls == {<<>>, <<"<?xml", "a", "?>">>, <<"<?xml", "?>">>}

Comments == {<<>>, <<"<!--", "a", "-->">>, <<"<!--", "<speak>", "-->">>,
             <<"<!--", "</speak>", "-->">>,
             <<"<!--", "<voice>", "b", "</voice>", "-->">>}

\* an optional byte-order mark, an optional declaration, an optional comment,
\* with or without whitespace around the declaration and the comment
Prologs ==
    {(IF bom THEN <<"BOM">> ELSE <<>>)
        \o (IF d = <<>> THEN <<>> ELSE Sp(ws) \o d \o Sp(ws))
        \o (IF c = <<>> THEN <<>> ELSE Sp(ws) \o c \o <<"\n">>) :
     bom \in BOOLEAN, d \in XmlDecls, c \in Comments, ws \in BOOLEAN}

----------------------------------------------------------------------------
(* split_ssml_by_voice on a bare document *)

InitSplit ==
    /\ ssml_text \in Documents(MaxItems)
    /\ max_voices \in 0..MaxVoices
    /\ prefix = <<>>
    /\ split_out = NotCalled
    /\ pre_out = NotCalled
    /\ fs = NoFiles
    /\ SynthIdle
    /\ ConcatIdle
    /\ MainIdle
    /\ SttIdle
    /\ FmtIdle

SplitCall ==
    /\ split_out.status = "not called"
    /\ split_out' = split_ssml_by_voice(ssml_text, max_voices)
    /\ UNCHANGED <<ssml_text, prefix, max_voices, pre_out>>
    /\ UNCHANGED <<fs, synthVars, concatVars, mainVars, sttVars, fmtVars>>

SplitPrefixedCall ==
    /\ pre_out.status = "not called"
    /\ pre_out' = split_ssml_by_voice(prefix \o ssml_text, max_voices)
    /\ UNCHANGED <<ssml_text, prefix, max_voices, split_out>>
    /\ UNCHANGED <<fs, synthVars, concatVars, mainVars, sttVars, fmtVars>>

NextSplit == SplitCall

SpecSplit == InitSplit /\ [][NextSplit]_vars

InitProlog ==
    /\ ssml_text \in Documents(MaxPrologItems)
    /\ max_voices \in 1..MaxVoices
    /\ prefix \in Prologs
    /\ split_out = NotCalled
    /\ pre_out = NotCalled
    /\ fs = NoFiles
    /\ SynthIdle
    /\ ConcatIdle
    /\ MainIdle
    /\ SttIdle
    /\ FmtIdle

NextProlog == SplitCall \/ SplitPrefixedCall

SpecProlog == InitProlog /\ [][NextProlog]_vars

----------------------------------------------------------------------------
(* C1 *)

CeilDiv(n, m) == (n + m - 1) \div m

\* what a chunk document holds: the <voice> blocks of its body
BlocksInPart(p) == FindVoiceBlocks(extract_speak_body(p).body, 1)

\* C1: for a body with N >= 1 <voice> blocks and a positive max_voices M the
\* split returns ceil(N/M) chunks, chunk k holding exactly the blocks
\* (k-1)M+1 .. min(kM, N) in order (so between 1 and M of them, and all the
\* chunks' blocks read in order are the body's blocks); with N = 0 it returns
\* one chunk whose only sub-element is the raw body.
C1_SplitChunks ==
    (split_out.status = "ok" /\ max_voices >= 1) =>
        LET e == extract_speak_body(ssml_text)
            b == FindVoiceBlocks(e.body, 1)
            N == Len(b)
            M == max_voices
            parts == split_out.parts
        IN  IF N = 0
            THEN parts = << <<e.open_tag, "\n">> \o e.body \o <<"\n", e.close_tag>> >>
            ELSE /\ Len(parts) = CeilDiv(N, M)
                 /\ \A k \in 1..Len(parts) :
                        /\ BlocksInPart(parts[k]) = SubSeq(b, (k - 1) * M + 1, Min(k * M, N))
                        /\ Len(BlocksInPart(parts[k])) \in 1..M
                        /\ parts[k][1] = e.open_tag
                        /\ parts[k][Len(parts[k])] = e.close_tag
                 /\ Flatten([k \in 1..Len(parts) |-> BlocksInPart(parts[k])]) = b

C1_Witness ==
    /\ split_out.status = "ok"
    /\ max_voices = 2
    /\ Len(FindVoiceBlocks(extract_speak_body(ssml_text).body, 1)) = 3
    /\ Len(split_out.parts) = 2

----------------------------------------------------------------------------
(* C8 *)

HasCloseTag(s) == \E i \in 1..Len(s) : s[i] \in SpeakCloseTags

\* C8: a prefix made of an optional byte-order mark, an optional <?xml ...?>
\* declaration and an optional leading comment does not change the split:
\* split_ssml_by_voice(P + D, M) returns what split_ssml_by_voice(D, M)
\* returns; and a document with no closing </speak> tag makes the split raise
\* instead of returning chunks.
C8_PrologIgnored ==
    /\ (split_out.status /= "not called" /\ pre_out.status /= "not called")
          => pre_out = split_out
    /\ (split_out.status /= "not called" /\ ~HasCloseTag(ssml_text))
          => split_out = [status |-> "ValueError", parts |-> <<>>]
    /\ (pre_out.status /= "not called" /\ ~HasCloseTag(prefix \o ssml_text))
          => pre_out = [status |-> "ValueError", parts |-> <<>>]

C8_Witness ==
    /\ prefix = <<"BOM", " ", "<?xml", "a", "?>", " ", " ", "<!--", "<speak>", "-->", "\n">>
    /\ ssml_text[1] = "<speak version>"
    /\ pre_out.status = "ok"
    /\ split_out.status = "ok"
    /\ Len(pre_out.parts) = 2
    /\ pre_out.parts[1][1] = "<speak version>"

----------------------------------------------------------------------------
(* C2, C10 *)

Timeout == <<"T","i","m","e","o","u","t">>

\* a transient failure as the claims define it: a raised exception, or a
\* Canceled result whose code is ConnectionFailure or whose details hold
\* "timeout" (in any letter case)
TransientFailure(o) ==
    \/ o.reason = "exception"
    \/ o.reason = "Canceled" /\ (o.code = ConnectionFailure \/ o.err = Timeout)

\* C2: with retry budget R, j <= R transient failures followed by a completed
\* attempt give success after exactly j+1 attempts (so after j <= R transient
\* failures the call is still going); a Canceled result that is not transient
\* gives failure at once; and at most R+1 attempts are ever made.
C2_RetryBudget ==
    LET n == Len(history) IN
    /\ attempt = n
    /\ remote_calls = n
    /\ n <= retries + 1
    /\ (n >= 1 /\ history[n].reason = "SynthesizingAudioCompleted"
             /\ \A i \in 1..(n - 1) : TransientFailure(history[i]))
          => (s_pc = "returned" /\ s_result = "True")
    /\ (n >= 1 /\ n <= retries /\ \A i \in 1..n : TransientFailure(history[i]))
          => (s_pc \in {"sleep", "loop"} /\ s_result = "none")
    /\ (n >= 1 /\ history[n].reason = "Canceled" /\ ~TransientFailure(history[n]))
          => (s_pc = "returned" /\ s_result = "False")
    /\ s_result = "True" => history[n].reason = "SynthesizingAudioCompleted"

C2_Witness ==
    /\ retries = 2
    /\ Len(history) = 3
    /\ history[1].reason = "exception"
    /\ history[2] = [reason |-> "Canceled", code |-> ServiceTimeout, err |-> Timeout]
    /\ s_result = "True"
    /\ attempt = 3

\* C10: every backoff wait lasts 1.5 x k seconds, k the number of the attempt
\* that has just failed transiently, and is followed by a further attempt; once
\* attempt retries+1 has failed the call returns failure without waiting
\* again; the same for a raised exception and a transient Canceled result.
C10_BackoffThenRetry ==
    /\ \A i \in 1..Len(waits) :
          /\ waits[i].tenths = 15 * waits[i].after
          /\ TransientFailure(history[waits[i].after])
    /\ s_pc = "sleep" => (sleep_for = 15 * attempt /\ attempt <= retries)
    /\ s_pc = "returned" => \A i \in 1..Len(waits) : waits[i].after < attempt

----------------------------------------------------------------------------
(* C3, C9 *)

C3_State ==
    /\ submitted = [i \in 1..Len(submitted) |-> i]
    /\ Len(submitted) <= Len(part_paths)
    /\ s_pc /= "idle" => m_pc \in {"synth", "exit"}
    /\ Len(wav_parts) <= Len(submitted)
    /\ Len(submitted) >= 1 => Len(wav_parts) >= Len(submitted) - 1
    /\ \A i \in 1..Len(wav_parts) : wav_parts[i] = WavPath(i) /\ Exists(fs, WavPath(i))
    /\ s_result = "False" =>
          /\ m_pc = "synth" \/ exit_code = 6
          /\ Len(submitted) = Len(wav_parts) + 1
          /\ ~Exists(fs, FinalWav)
          /\ ~mp3_written
    /\ exit_code = 6 => s_result = "False"
    /\ Exists(fs, FinalWav) =>
          /\ part_paths /= <<>>
          /\ Len(wav_parts) = Len(part_paths)
          /\ s_result /= "False"
    /\ mp3_written => Exists(fs, FinalWav)

\* C3: chunks are submitted one at a time in chunk order, chunk k only after
\* chunks 1..k-1 have succeeded; once synthesize_to_wav returns failure the
\* very next step of main is exit code 6, with no later chunk submitted and no
\* final WAV or MP3 written; the final WAV exists only when every chunk
\* succeeded.
C3_FailFast ==
    /\ []C3_State
    /\ [][(m_pc = "synth" /\ s_result = "False")
             => (exit_code' = 6 /\ submitted' = submitted /\ fs' = fs)]_vars
    /\ [][m_pc = "exit" => UNCHANGED <<submitted, fs, mp3_written>>]_vars

C3_Witness ==
    /\ exit_code = 6
    /\ Len(part_paths) = 3
    /\ submitted = <<1, 2>>
    /\ wav_parts = <<WavPath(1)>>
    /\ ~Exists(fs, FinalWav)

\* C9: exit code 2 when no key is set, 3 when the input file is missing, 4
\* when splitting raises, 5 when --no-split finds no chunk file, 6 when a
\* chunk's synthesis fails, checked in that order; with 2, 3, 4 or 5 the run
\* ends before any remote synthesis call.
C9_ExitCodes ==
    LET raises == split_ssml_by_voice(ssml_text, max_voices).status /= "ok"
        early == IF ~has_key THEN 2
                 ELSE IF ~input_exists THEN 3
                 ELSE IF ~no_split /\ raises THEN 4
                 ELSE IF no_split /\ pre_parts = 0 THEN 5
                 ELSE 0
    IN  /\ m_pc = "exit" => (early /= 0 => exit_code = early)
        /\ exit_code \in {2, 3, 4, 5} => exit_code = early
        /\ early /= 0 => (remote_calls = 0 /\ submitted = <<>> /\ s_pc = "idle")
        /\ early = 2 => m_pc \in {"start", "exit"}
        /\ early = 3 => m_pc \in {"start", "input", "exit"}
        /\ early \in {4, 5} => m_pc \in {"start", "input", "parts", "exit"}
        /\ (m_pc = "exit" /\ s_result = "False") => exit_code = 6
        /\ exit_code = 6 => (early = 0 /\ s_result = "False" /\ remote_calls > 0)

C9_Witness ==
    /\ exit_code = 4
    /\ has_key /\ input_exists /\ ~no_split
    /\ remote_calls = 0

----------------------------------------------------------------------------
(* C4, C5 *)

Called == c_out.status /= "not called"

AllExist == \A i \in 1..Len(wav_paths) : Exists(fs_before, wav_paths[i])

ParamsOf(i) == fs_before[wav_paths[i]].params

SameFormat == \A i \in 1..Len(wav_paths) : ParamsOf(i) = ParamsOf(1)

\* C4: for a non-empty list of WAV inputs that share (channels, sample width,
\* frame rate), concat_wavs writes an output with those parameters whose
\* frame data is the inputs' frame data in input order, nothing added,
\* dropped or reordered.
C4_ConcatFrames ==
    (Called /\ wav_paths /= <<>> /\ AllExist /\ SameFormat) =>
        /\ c_out.status = "ok"
        /\ Exists(fs, out_wav)
        /\ fs[out_wav].params = ParamsOf(1)
        /\ fs[out_wav].frames =
              Flatten([i \in 1..Len(wav_paths) |-> fs_before[wav_paths[i]].frames])
        /\ \A p \in DOMAIN fs : p /= out_wav => (Exists(fs_before, p) /\ fs[p] = fs_before[p])

C4_Witness ==
    /\ c_out.status = "ok"
    /\ wav_paths = <<<<"in", 2>>, <<"in", 1>>, <<"in", 2>>>>
    /\ out_wav = <<"in", 1>>
    /\ fs[out_wav].frames = <<21, 11, 12, 21>>

FirstMismatch ==
    LET bad == {i \in 1..Len(wav_paths) : ParamsOf(i) /= ParamsOf(1)}
    IN  CHOOSE i \in bad : \A j \in bad : i <= j

\* C5: given an empty list, or a list in which some file's parameters differ
\* from the first file's, concat_wavs raises (for a mismatch: naming the first
\* offending file, its parameters and the expected ones) and the output path
\* is as it was before the call.
C5_ConcatRaises ==
    /\ (Called /\ wav_paths = <<>>) =>
          (c_out.status = "ValueError" /\ c_out.error.kind = "empty" /\ fs = fs_before)
    /\ (Called /\ wav_paths /= <<>> /\ AllExist /\ ~SameFormat) =>
          /\ c_out.status = "ValueError"
          /\ c_out.error = [kind |-> "mismatch", file |-> wav_paths[FirstMismatch],
                            actual |-> ParamsOf(FirstMismatch), expected |-> ParamsOf(1)]
          /\ fs = fs_before

C5_Witness ==
    /\ c_out.status = "ValueError"
    /\ c_out.error.kind = "mismatch"
    /\ c_out.error.file = <<"in", 3>>
    /\ Len(wav_paths) = 3
    /\ out_wav = <<"out", 1>>

----------------------------------------------------------------------------
(* C6 *)

EventFired == fired /= {}

C6_State ==
    /\ done => EventFired
    /\ (t_pc \in {"stop", "output", "returned"} \/ stream = "stopped"
            \/ DOMAIN written /= {}) => EventFired
    /\ (stream = "running" /\ ~EventFired) => t_pc = "poll"

\* C6: after start_continuous_recognition the main flow stays in its polling
\* loop until session_stopped or canceled has fired; the stream is stopped,
\* and any output file written, only after one of the two; once one has fired
\* the main flow eventually leaves the loop and stops the stream; while none
\* has fired the call has not returned.
C6_PollUntilEvent ==
    /\ []C6_State
    /\ (EventFired ~> stream = "stopped")
    /\ [](EventFired \/ t_pc /= "returned")

C6_Witness ==
    /\ t_pc = "returned"
    /\ fired = {"canceled"}
    /\ stream = "stopped"
    /\ Len(segments) = 2
    /\ "srt" \in DOMAIN written

----------------------------------------------------------------------------
(* C7 *)

IsDigit(c) == \E d \in 1..10 : DigitChars[d] = c

DigitVal(c) == (CHOOSE d \in 1..10 : DigitChars[d] = c) - 1

\* HH:MM:SS<sep>mmm: two-digit fields, MM and SS in 00..59, three digits mmm
Shaped(str, sep) ==
    /\ Len(str) = 12
    /\ str[3] = ":" /\ str[6] = ":" /\ str[9] = sep
    /\ \A i \in {1, 2, 4, 5, 7, 8, 10, 11, 12} : IsDigit(str[i])
    /\ 10 * DigitVal(str[4]) + DigitVal(str[5]) <= 59
    /\ 10 * DigitVal(str[7]) + DigitVal(str[8]) <= 59

\* C7: for every t that is a whole number of ticks, 0 <= t < 100 hours,
\* sec_to_srt renders t as HH:MM:SS,mmm and sec_to_vtt as HH:MM:SS.mmm, with
\* two-digit fields, MM and SS in 00..59 and exactly three millisecond digits;
\* 1.5 s gives 00:00:01,500 and 00:00:01.500.
C7_TimestampShape ==
    srt_out /= <<>> =>
        /\ Shaped(srt_out, ",")
        /\ Shaped(vtt_out, ".")
        /\ t_in = Time(1, 5000000) =>
              /\ srt_out = <<"0","0",":","0","0",":","0","1",",","5","0","0">>
              /\ vtt_out = <<"0","0",":","0","0",":","0","1",".","5","0","0">>

====
